---- MODULE Spec2Model ----
(***************************************************************************)
(* Faculty Publication Summary Tool (src/OOPS.py and src/Prototype.py).    *)
(*                                                                         *)
(* The two files are two versions of one Streamlit script.  A script run   *)
(* (main) happens on every user interaction; st.session_state and the      *)
(* st.cache_data store survive between runs.  The variable impl says which *)
(* of the two files is running.                                            *)
(*                                                                         *)
(* Text is a sequence of one-character strings, so that endswith,          *)
(* str.contains and pd.to_numeric are computed and not assumed.            *)
(*                                                                         *)
(* Library behaviour that is taken as given:                               *)
(*  - bibtexparser.load and pd.read_excel: a file content is the list of   *)
(*    its entries (one dict per entry or row);                             *)
(*  - readdf is decorated with st.cache_data in Prototype.py; since the    *)
(*    result is a function of the file, the stored result and a new call   *)
(*    agree and no store is kept for it;                                   *)
(*  - the author names typed hold no regex metacharacter, so str.contains  *)
(*    is a case-insensitive substring search;                              *)
(*  - scholarly.fill either returns the profile or raises                  *)
(*    MaxTriesExceededException; next(query) raises StopIteration once the *)
(*    search has nothing more to yield;                                    *)
(*  - a widget that a script run does not draw is reset to its default.    *)
(***************************************************************************)
EXTENDS Integers, Sequences, FiniteSets, TLC

(***************************************************************************)
(* Bounds of the model.                                                    *)
(***************************************************************************)
\* longest list of profiles the author search yields
MaxProfiles == 3

(***************************************************************************)
(* Program constants.                                                      *)
(***************************************************************************)
\* range(3): iterations of the retry loop
Tries == 3
\* st.slider("Start Year", 1900, 2024, 2015) and ("End Year", 1900, 2024, 2020)
SliderMin == 1900
SliderMax == 2024
StartDefault == 2015
EndDefault == 2020

(***************************************************************************)
(* Text.                                                                   *)
(***************************************************************************)
Upper == <<"A", "B", "C", "D", "E", "F", "G", "H", "I", "J", "K", "L", "M",
           "N", "O", "P", "Q", "R", "S", "T", "U", "V", "W", "X", "Y", "Z">>
Lowers == <<"a", "b", "c", "d", "e", "f", "g", "h", "i", "j", "k", "l", "m",
            "n", "o", "p", "q", "r", "s", "t", "u", "v", "w", "x", "y", "z">>
Digits == <<"0", "1", "2", "3", "4", "5", "6", "7", "8", "9">>

LowerChar(c) ==
    IF \E i \in 1..Len(Upper) : Upper[i] = c
    THEN Lowers[CHOOSE i \in 1..Len(Upper) : Upper[i] = c]
    ELSE c

Lower(s) == [i \in 1..Len(s) |-> LowerChar(s[i])]

\* str.endswith
EndsWith(s, suf) ==
    /\ Len(suf) <= Len(s)
    /\ SubSeq(s, Len(s) - Len(suf) + 1, Len(s)) = suf

\* plain substring search (the pattern holds no regex metacharacter)
Contains(s, sub) ==
    \E i \in 0..(Len(s) - Len(sub)) : SubSeq(s, i + 1, i + Len(sub)) = sub

IsDigit(c) == \E i \in 1..Len(Digits) : Digits[i] = c

DigitVal(c) == (CHOOSE i \in 1..Len(Digits) : Digits[i] = c) - 1

RECURSIVE ParseDigits(_)
ParseDigits(s) ==
    IF s = <<>> THEN 0
    ELSE 10 * ParseDigits(SubSeq(s, 1, Len(s) - 1)) + DigitVal(s[Len(s)])

BibExt == <<".", "b", "i", "b">>
XlsxExt == <<".", "x", "l", "s", "x">>

(***************************************************************************)
(* Cell values of a data frame: text, a number, or NaN (missing).          *)
(***************************************************************************)
NaN == [t |-> "nan", n |-> 0, s |-> <<>>]
Num(k) == [t |-> "num", n |-> k, s |-> <<>>]
Txt(str) == [t |-> "str", n |-> 0, s |-> str]
EmptyText == Txt(<<>>)

\* pd.to_numeric(x, errors='coerce') on one cell, restricted to the inputs of
\* the model: numbers and NaN are kept, a text of decimal digits is parsed,
\* any other text (the empty text too) becomes NaN.
ToNumericTextOnly(v) ==
    IF v.t = "str" /\ v.s # <<>> /\ \A i \in 1..Len(v.s) : IsDigit(v.s[i])
    THEN Num(ParseDigits(v.s))
    ELSE NaN

ToNumeric(v) ==
    IF v.t = "num" THEN v
    ELSE IF v.t = "str" /\ v.s # <<>> /\ \A i \in 1..Len(v.s) : IsDigit(v.s[i])
    THEN Num(ParseDigits(v.s))
    ELSE NaN

(***************************************************************************)
(* Data frames: a set of column names and a sequence of rows, each row a   *)
(* function from the columns to cell values.                               *)
(***************************************************************************)
\* pd.DataFrame() and pd.DataFrame([]): no column, no row
EmptyFrame == [cols |-> {}, rows |-> <<>>]

\* dict.get(key, default)
EmptyDict == [k \in {} |-> NaN]
Get(d, key, default) == IF key \in DOMAIN d THEN d[key] ELSE default

\* pd.DataFrame(list of dicts): the columns are the union of the keys, a key
\* missing from one dict is NaN in its row
DataFrame(entries) ==
    LET cols == UNION {DOMAIN entries[i] : i \in 1..Len(entries)}
    IN [cols |-> cols,
        rows |-> [i \in 1..Len(entries) |->
                    [c \in cols |-> Get(entries[i], c, NaN)]]]

\* DataFrame.empty
IsEmpty(df) == df.rows = <<>> \/ df.cols = {}

(***************************************************************************)
(* FileHandler.read_file / readdf                                          *)
(***************************************************************************)
\* The result of a call that may raise: a value, or the name of the exception.
Ok(v) == [fault |-> "none", val |-> v]
Raise(e) == [fault |-> e, val |-> <<>>]

\* Prototype.py binds BytesIO only (from io import BytesIO), so the name io
\* that its .bib branch uses is unbound there; OOPS.py has import io.
IoImported(im) == im = "OOPS"

\* A file is [fn, entries]: its name and its content, already split into
\* entries (bibtexparser.load and pd.read_excel are library code).  Returns
\* the data frame, or None (isNone) together with the unsupported-format
\* message.
ReadFileAnyExt(im, file) ==
    IF EndsWith(file.fn, BibExt)
    THEN IF IoImported(im) THEN Ok([isNone |-> FALSE, data |-> DataFrame(file.entries), msgs |-> {}])
         ELSE Raise("NameError")
    ELSE Ok([isNone |-> FALSE, data |-> DataFrame(file.entries), msgs |-> {}])

ReadFile(im, file) ==
    IF EndsWith(file.fn, BibExt)
    THEN IF IoImported(im) THEN Ok([isNone |-> FALSE, data |-> DataFrame(file.entries), msgs |-> {}])
         ELSE Raise("NameError")
    ELSE IF EndsWith(file.fn, XlsxExt)
    THEN Ok([isNone |-> FALSE, data |-> DataFrame(file.entries), msgs |-> {}])
    ELSE Ok([isNone |-> TRUE, data |-> EmptyFrame, msgs |-> {"Unsupported file format"}])

(***************************************************************************)
(* PublicationFetcher.get_publications / getPub: the mapping of a filled   *)
(* profile to the record set.                                              *)
(***************************************************************************)
\* one publication of the profile -> one row; a missing sub-field is ''
PubRowNaN(pub) ==
    LET bib == Get(pub, "bib", EmptyDict)
    IN [title   |-> Get(bib, "title", NaN),
        year    |-> Get(bib, "pub_year", NaN),
        journal |-> Get(bib, "venue", NaN),
        authors |-> Get(bib, "author", NaN)]

PubRow(pub) ==
    LET bib == Get(pub, "bib", EmptyDict)
    IN [title   |-> Get(bib, "title", EmptyText),
        year    |-> Get(bib, "pub_year", EmptyText),
        journal |-> Get(bib, "venue", EmptyText),
        authors |-> Get(bib, "author", EmptyText)]

\* pd.DataFrame(pubs) for the filled profile
ProfileFrame(author) ==
    DataFrame([i \in 1..Len(author.publications) |-> PubRow(author.publications[i])])

(***************************************************************************)
(* DataProcessor.filter_by_year / filByYear                                *)
(***************************************************************************)
\* (data['year'] >= start) & (data['year'] <= end); a comparison with NaN is False
InRangeOpenEnd(v, start, end) == v.t = "num" /\ v.n >= start /\ v.n < end

InRange(v, start, end) == v.t = "num" /\ v.n >= start /\ v.n <= end

\* data['year'] = pd.to_numeric(data['year'], errors='coerce'): the frame
\* passed in, after the assignment
CoerceYear(data) ==
    [data EXCEPT !.rows =
        [i \in 1..Len(data.rows) |->
            [data.rows[i] EXCEPT !["year"] = ToNumeric(data.rows[i]["year"])]]]

\* data[mask]: the rows the mask keeps, in order
SelectRows(data, start, end) ==
    [data EXCEPT !.rows = SelectSeq(data.rows, LAMBDA r : InRange(r["year"], start, end))]

\* The call: raises KeyError when the frame has no 'year' column; otherwise
\* val.data is the frame passed in as the call leaves it and val.out is the
\* frame returned.
FilterByYear(data, start, end) ==
    IF "year" \notin data.cols THEN Raise("KeyError")
    ELSE Ok([data |-> CoerceYear(data),
             out  |-> SelectRows(CoerceYear(data), start, end)])

(***************************************************************************)
(* main: the search within the uploaded dataset                            *)
(***************************************************************************)
\* data[data['author'].str.contains(name, case=False, na=False)]
LocalSearch(data, name) ==
    IF "author" \notin data.cols THEN Raise("KeyError")
    ELSE Ok([data EXCEPT !.rows =
                SelectSeq(data.rows,
                          LAMBDA r : /\ r["author"].t = "str"
                                     /\ Contains(Lower(r["author"].s), Lower(name)))])

\* if not publications.empty: st.session_state.publications = publications
\* else: st.warning(...)
StoreAlways(sess, publications) ==
    [sess EXCEPT !.hasPubs = TRUE, !.publications = publications]

StoreIfNonEmpty(sess, publications) ==
    IF ~IsEmpty(publications)
    THEN [sess EXCEPT !.hasPubs = TRUE, !.publications = publications]
    ELSE sess

(***************************************************************************)
(* Inputs of the model.                                                    *)
(***************************************************************************)
\* author names typed into the text input; JaneDoe is the default value
JaneDoe == <<"J", "a", "n", "e", " ", "D", "o", "e">>
Doe == <<"d", "o", "e">>
AuthorNames == {JaneDoe, Doe}

NoFile == [present |-> FALSE, fn |-> <<>>, entries |-> <<>>]

\* two bibliography entries, 2010 and 2020, the second without a journal
BibFile ==
    [present |-> TRUE, fn |-> <<"r", ".", "b", "i", "b">>,
     entries |-> << [title |-> Txt(<<"A">>), year |-> Txt(<<"2", "0", "1", "0">>),
                     journal |-> Txt(<<"J">>), author |-> Txt(JaneDoe)],
                    [title |-> Txt(<<"B">>), year |-> Txt(<<"2", "0", "2", "0">>),
                     author |-> Txt(<<"J", ".", " ", "D", "O", "E">>)] >>]

\* a spreadsheet with an author column; years: a number, a text, a blank
AuthorSheet ==
    [present |-> TRUE, fn |-> <<"q", ".", "x", "l", "s", "x">>,
     entries |-> << [title |-> Txt(<<"C">>), year |-> Num(2016), author |-> Txt(JaneDoe)],
                    [title |-> Txt(<<"D">>), year |-> Txt(<<"n", ".", "d", ".">>),
                     author |-> Txt(JaneDoe)],
                    [title |-> Txt(<<"E">>), year |-> NaN,
                     author |-> Txt(<<"A", ".", " ", "R", "o", "e">>)] >>]

\* a spreadsheet as the export writes it: title, year, journal, authors
ExportedSheet ==
    [present |-> TRUE, fn |-> <<"p", ".", "x", "l", "s", "x">>,
     entries |-> << [title |-> Txt(<<"G">>), year |-> Num(2018),
                     journal |-> Txt(<<"V">>), authors |-> Txt(JaneDoe)] >>]

\* a file that is neither .bib nor .xlsx
TextFile ==
    [present |-> TRUE, fn |-> <<"n", ".", "t", "x", "t">>, entries |-> <<>>]

FileSamples == {BibFile, AuthorSheet, ExportedSheet, TextFile}

\* profiles of the external service: publications as scholarly.fill returns them
NoProfile == [id |-> "none", publications |-> <<>>]

ProfileTwo ==
    [id |-> "two",
     publications |-> << [bib |-> [title |-> Txt(<<"G">>),
                                   pub_year |-> Txt(<<"2", "0", "1", "8">>),
                                   venue |-> Txt(<<"V">>),
                                   author |-> Txt(JaneDoe)]],
                         [bib |-> [title |-> Txt(<<"H">>)]] >>]

ProfileZero == [id |-> "zero", publications |-> <<>>]

ProfileSamples == {ProfileTwo, ProfileZero}

\* what scholarly.search_author may yield: any list of at most MaxProfiles profiles
SearchResults == UNION {[1..k -> ProfileSamples] : k \in 0..MaxProfiles}

\* the positions the user leaves the two sliders at
StartStops == {SliderMin, StartDefault, SliderMax}
EndStops == {EndDefault, SliderMax}

SearchOptions == {"dataset", "scholar"}

(***************************************************************************)
(* State.                                                                  *)
(***************************************************************************)
VARIABLES
    impl,      \* "OOPS" or "Prototype": the file that is running
    file,      \* the file in the uploader
    session,   \* st.session_state: authorName and publications
    cache,     \* the st.cache_data store of getPub, by author name
    widgets,   \* the values of the text input, the radio and the two sliders
    pc,        \* "idle", or inside the fetch: "loop", "ret"
    fetch,     \* the locals of get_publications / getPub
    fetched,   \* the author names the fetch was invoked for so far
    run        \* what the last script run did and showed

vars == <<impl, file, session, cache, widgets, pc, fetch, fetched, run>>

NoSession == [hasName |-> FALSE, authorName |-> <<>>,
              hasPubs |-> FALSE, publications |-> EmptyFrame]

DefaultWidgets == [name |-> JaneDoe, opt |-> "dataset",
                   y1 |-> StartDefault, y2 |-> EndDefault]

NoFetch == [name |-> <<>>, results |-> <<>>, qpos |-> 0, attempts |-> 0,
            broke |-> FALSE, author |-> NoProfile, first |-> NoProfile,
            queried |-> FALSE, repeat |-> FALSE]

NoCacheEntry == [hit |-> FALSE, ret |-> EmptyFrame, msgs |-> {}]

BlankRun == [button |-> "none", msgs |-> {}, fault |-> "none", searched |-> "none",
             ret |-> EmptyFrame, filterRan |-> FALSE, fin |-> EmptyFrame,
             fout |-> EmptyFrame, saved |-> "none", shown |-> {}]

Init ==
    /\ impl \in {"OOPS", "Prototype"}
    /\ file = NoFile
    /\ session = NoSession
    /\ cache = [n \in AuthorNames |-> NoCacheEntry]
    /\ widgets = DefaultWidgets
    /\ pc = "idle"
    /\ fetch = NoFetch
    /\ fetched = {}
    /\ run = BlankRun

(***************************************************************************)
(* main: one script run.                                                   *)
(***************************************************************************)
\* A widget that a run does not reach loses its value and shows its default
\* again the next time it is drawn.
KeepInputs(name, opt) == [DefaultWidgets EXCEPT !.name = name, !.opt = opt]

\* if 'authorName' not in st.session_state: st.session_state.authorName = "Jane Doe"
WithDefaultName(sess) ==
    IF sess.hasName THEN sess
    ELSE [sess EXCEPT !.hasName = TRUE, !.authorName = JaneDoe]

\* The part of main from "if 'publications' in st.session_state" on, run on
\* the session sess that the search part left; wd holds the widget values of
\* this run, r the record of the run so far.
MainTail(sess, wd, r) ==
    IF ~sess.hasPubs
    THEN /\ session' = sess
         /\ widgets' = KeepInputs(wd.name, wd.opt)
         /\ run' = [r EXCEPT !.shown = {"inputs"}]
    ELSE LET fl == FilterByYear(sess.publications, wd.y1, wd.y2)
         IN IF fl.fault # "none"
            THEN /\ session' = sess
                 /\ widgets' = wd
                 /\ run' = [r EXCEPT !.fault = fl.fault, !.shown = {"inputs", "sliders"}]
            ELSE /\ session' = [sess EXCEPT !.publications = fl.val.data]
                 /\ widgets' = wd
                 /\ run' = [r EXCEPT !.filterRan = TRUE,
                                     !.fin = sess.publications,
                                     !.fout = fl.val.out,
                                     !.saved = IF r.button \in {"excel", "word"}
                                               THEN r.button ELSE "none",
                                     !.shown = {"inputs", "sliders", "exports"}]

\* The run stops at an exception: what was stored before it stays stored.
Stop(sess, wd, r) ==
    /\ session' = sess
    /\ widgets' = wd
    /\ run' = r

\* main for every run but the one that calls the external fetch: fl is the
\* file in the uploader, wd the widget values, button the button pressed
\* ("none", "get" with the dataset option, "excel", "word").
Main(fl, wd, button) ==
    LET r0 == [BlankRun EXCEPT !.button = button]
    IN IF ~fl.present
       THEN Stop(session, DefaultWidgets, r0)
       ELSE LET rd == ReadFile(impl, fl)
            IN IF rd.fault # "none"
               THEN Stop(session, DefaultWidgets, [r0 EXCEPT !.fault = rd.fault])
               ELSE IF rd.val.isNone
               THEN Stop(session, DefaultWidgets, [r0 EXCEPT !.msgs = rd.val.msgs])
               ELSE LET s1 == WithDefaultName(session)
                    IN IF button = "get"
                       THEN LET s2 == [s1 EXCEPT !.authorName = wd.name]
                                ls == LocalSearch(rd.val.data, wd.name)
                                r1 == [r0 EXCEPT !.searched = "dataset"]
                            IN IF ls.fault # "none"
                               THEN Stop(s2, KeepInputs(wd.name, wd.opt),
                                         [r1 EXCEPT !.fault = ls.fault, !.shown = {"inputs"}])
                               ELSE MainTail(StoreIfNonEmpty(s2, ls.val), wd,
                                             [r1 EXCEPT !.ret = ls.val,
                                                        !.msgs = IF IsEmpty(ls.val)
                                                                 THEN {"No publications found in dataset"}
                                                                 ELSE {}])
                       ELSE MainTail(s1, wd, r0)

\* The rest of main after the external fetch returned ret and showed msgs.
AfterFetch(sess, wd, ret, msgs) ==
    MainTail(StoreIfNonEmpty(sess, ret), wd,
             [BlankRun EXCEPT !.button = "get", !.searched = "scholar", !.ret = ret,
                              !.msgs = msgs \cup (IF IsEmpty(ret)
                                                  THEN {"No publications found"}
                                                  ELSE {})])

NoFetchChange == /\ pc' = "idle"
                 /\ fetch' = NoFetch
                 /\ UNCHANGED <<impl, cache, fetched>>

(***************************************************************************)
(* User actions; each one is a script run.                                 *)
(***************************************************************************)
\* the user puts a file into the uploader
Upload(f) ==
    /\ pc = "idle"
    /\ f # file
    /\ file' = f
    /\ Main(f, widgets, "none")
    /\ NoFetchChange

\* the user edits the author name
EditName(n) ==
    /\ pc = "idle"
    /\ "inputs" \in run.shown
    /\ n # widgets.name
    /\ Main(file, [widgets EXCEPT !.name = n], "none")
    /\ NoFetchChange
    /\ UNCHANGED file

\* the user picks the other search option
ChooseOption(o) ==
    /\ pc = "idle"
    /\ "inputs" \in run.shown
    /\ o # widgets.opt
    /\ Main(file, [widgets EXCEPT !.opt = o], "none")
    /\ NoFetchChange
    /\ UNCHANGED file

\* the user moves the start or the end slider
MoveStart(y) ==
    /\ pc = "idle"
    /\ "sliders" \in run.shown
    /\ y # widgets.y1
    /\ Main(file, [widgets EXCEPT !.y1 = y], "none")
    /\ NoFetchChange
    /\ UNCHANGED file

MoveEnd(y) ==
    /\ pc = "idle"
    /\ "sliders" \in run.shown
    /\ y # widgets.y2
    /\ Main(file, [widgets EXCEPT !.y2 = y], "none")
    /\ NoFetchChange
    /\ UNCHANGED file

\* "Get Publications" with "Search within the uploaded dataset"
GetFromDataset ==
    /\ pc = "idle"
    /\ "inputs" \in run.shown
    /\ widgets.opt = "dataset"
    /\ Main(file, widgets, "get")
    /\ NoFetchChange
    /\ UNCHANGED file

\* "Save to Excel" / "Save to Word"
Save(kind) ==
    /\ pc = "idle"
    /\ "exports" \in run.shown
    /\ Main(file, widgets, kind)
    /\ NoFetchChange
    /\ UNCHANGED file

(***************************************************************************)
(* "Get Publications" with "Search universally using Google Scholar":      *)
(* get_publications / getPub, one action per iteration of its retry loop.  *)
(***************************************************************************)
\* @st.cache_data on getPub; get_publications is a plain method
UsesCacheAlways(im) == TRUE

UsesCache(im) == im = "Prototype"

\* for _ in range(3): the loop goes on while it has iterations left
LoopGoesOnOneMore(attempts) == attempts <= Tries

LoopGoesOn(attempts) == attempts < Tries

\* The run reaches the call.  With a stored result for the name, getPub
\* returns it (and shows again what the stored call showed) without running
\* its body; otherwise the body starts: query = scholarly.search_author(name).
GetFromScholarStored ==
    /\ pc = "idle"
    /\ "inputs" \in run.shown
    /\ widgets.opt = "scholar"
    /\ UsesCache(impl)
    /\ cache[widgets.name].hit
    /\ LET s2 == [WithDefaultName(session) EXCEPT !.authorName = widgets.name]
       IN AfterFetch(s2, widgets, cache[widgets.name].ret, cache[widgets.name].msgs)
    /\ pc' = "idle"
    /\ fetch' = [NoFetch EXCEPT !.name = widgets.name,
                                !.repeat = widgets.name \in fetched]
    /\ fetched' = fetched \cup {widgets.name}
    /\ UNCHANGED <<impl, file, cache>>

GetFromScholar(results) ==
    /\ pc = "idle"
    /\ "inputs" \in run.shown
    /\ widgets.opt = "scholar"
    /\ ~(UsesCache(impl) /\ cache[widgets.name].hit)
    /\ session' = [WithDefaultName(session) EXCEPT !.authorName = widgets.name]
    /\ run' = [BlankRun EXCEPT !.button = "get", !.searched = "scholar",
                               !.shown = {"inputs"}]
    /\ pc' = "loop"
    /\ fetch' = [NoFetch EXCEPT !.name = widgets.name,
                                !.results = results,
                                !.first = IF results = <<>> THEN NoProfile ELSE results[1],
                                !.queried = TRUE,
                                !.repeat = widgets.name \in fetched]
    /\ fetched' = fetched \cup {widgets.name}
    /\ UNCHANGED <<impl, file, cache, widgets>>

\* after an except branch: the next iteration, or the loop's else branch
AfterFailure(f) == [f EXCEPT !.attempts = f.attempts + 1]

\* next(query) raises StopIteration: the search has nothing (more) to yield
AttemptStopIteration ==
    /\ pc = "loop"
    /\ fetch.qpos >= Len(fetch.results)
    /\ fetch' = AfterFailure(fetch)
    /\ pc' = IF LoopGoesOn(fetch.attempts + 1) THEN "loop" ELSE "ret"
    /\ UNCHANGED <<impl, file, session, cache, widgets, fetched, run>>

\* next(query) yields a profile and scholarly.fill raises MaxTriesExceededException
AttemptMaxTries ==
    /\ pc = "loop"
    /\ fetch.qpos < Len(fetch.results)
    /\ fetch' = [AfterFailure(fetch) EXCEPT !.qpos = fetch.qpos + 1]
    /\ pc' = IF LoopGoesOn(fetch.attempts + 1) THEN "loop" ELSE "ret"
    /\ UNCHANGED <<impl, file, session, cache, widgets, fetched, run>>

\* next(query) yields a profile and scholarly.fill returns it filled: break
AttemptFilled ==
    /\ pc = "loop"
    /\ fetch.qpos < Len(fetch.results)
    /\ fetch' = [fetch EXCEPT !.qpos = fetch.qpos + 1,
                              !.attempts = fetch.attempts + 1,
                              !.author = fetch.results[fetch.qpos + 1],
                              !.broke = TRUE]
    /\ pc' = "ret"
    /\ UNCHANGED <<impl, file, session, cache, widgets, fetched, run>>

\* st.error("Failed to fetch data from Google Scholar. Try again later.")
FetchFailedMsg == "Failed to fetch data from Google Scholar"

\* what the call returns and shows once the loop is over
FetchResult(f) ==
    IF f.broke
    THEN [ret |-> ProfileFrame(f.author), msgs |-> {}]
    ELSE [ret |-> EmptyFrame, msgs |-> {FetchFailedMsg}]

\* the call returns and main goes on to its end
FetchReturn ==
    /\ pc = "ret"
    /\ LET res == FetchResult(fetch)
       IN /\ AfterFetch(session, widgets, res.ret, res.msgs)
          /\ cache' = IF UsesCache(impl)
                      THEN [cache EXCEPT ![fetch.name] =
                               [hit |-> TRUE, ret |-> res.ret, msgs |-> res.msgs]]
                      ELSE cache
    /\ pc' = "idle"
    /\ fetch' = [fetch EXCEPT !.results = <<>>, !.qpos = 0]
    /\ UNCHANGED <<impl, file, fetched>>

Next ==
    \/ \E f \in FileSamples \cup {NoFile} : Upload(f)
    \/ \E n \in AuthorNames : EditName(n)
    \/ \E o \in SearchOptions : ChooseOption(o)
    \/ \E y \in StartStops : MoveStart(y)
    \/ \E y \in EndStops : MoveEnd(y)
    \/ GetFromDataset
    \/ \E k \in {"excel", "word"} : Save(k)
    \/ GetFromScholarStored
    \/ \E r \in SearchResults : GetFromScholar(r)
    \/ AttemptStopIteration
    \/ AttemptMaxTries
    \/ AttemptFilled
    \/ FetchReturn

Spec == Init /\ [][Next]_vars

(***************************************************************************)
(* Properties.                                                             *)
(***************************************************************************)
\* the run that called the external fetch is over
FetchRunOver == pc = "idle" /\ run.searched = "scholar"

\* C1: one call of the external fetch makes at most 3 attempts; when all of
\* them fail the loop is left after the third (no attempt follows it), the
\* failure message is shown and the call returns the empty record set.
C1_AtMostThreeAttempts ==
    /\ fetch.attempts <= 3
    /\ (pc = "loop" => fetch.attempts < 3 /\ ~fetch.broke)
    /\ (pc = "ret" /\ ~fetch.broke => fetch.attempts = 3)
    /\ (FetchRunOver /\ fetch.queried /\ ~fetch.broke =>
            /\ fetch.attempts = 3
            /\ run.ret = EmptyFrame
            /\ "Failed to fetch data from Google Scholar" \in run.msgs)

C1_Witness ==
    FetchRunOver /\ fetch.queried /\ ~fetch.broke /\ fetch.attempts = 3

\* C2: a success on attempt k <= 3 ends the loop at once; the call returns
\* one row per publication of the filled profile, each sub-field the
\* publication lacks being the empty text, and shows no fetch failure.
C2_SuccessReturnsProfileRecords ==
    /\ (fetch.broke => pc # "loop" /\ fetch.attempts <= 3)
    /\ (FetchRunOver /\ fetch.queried /\ fetch.broke =>
          LET pubs == fetch.author.publications
              Sub(pub, k) == IF "bib" \in DOMAIN pub /\ k \in DOMAIN pub["bib"]
                             THEN pub["bib"][k] ELSE Txt(<<>>)
          IN /\ Len(run.ret.rows) = Len(pubs)
             /\ \A i \in 1..Len(pubs) :
                    /\ run.ret.rows[i]["title"] = Sub(pubs[i], "title")
                    /\ run.ret.rows[i]["year"] = Sub(pubs[i], "pub_year")
                    /\ run.ret.rows[i]["journal"] = Sub(pubs[i], "venue")
                    /\ run.ret.rows[i]["authors"] = Sub(pubs[i], "author")
             /\ "Failed to fetch data from Google Scholar" \notin run.msgs)

\* attempts 1 and 2 failed, attempt 3 succeeded, the profile has publications
\* and one of them lacks sub-fields
C2_Witness ==
    /\ FetchRunOver /\ fetch.queried /\ fetch.broke /\ fetch.attempts = 3
    /\ Len(run.ret.rows) = 2
    /\ run.ret.rows[2]["year"] = Txt(<<>>)

\* C3: the Year Filter leaves the record set passed in unchanged: after the
\* call the stored publications are, field by field, what was passed in.
C3_FilterLeavesSourceUnchanged ==
    run.filterRan => session.publications = run.fin

\* C4: the Year Filter returns exactly the records whose year coerces to a
\* number y with start <= y <= end, in their original order (their year
\* being that number); no record with a missing or non-numeric year is
\* returned, and nothing is returned when start > end.
C4_FilterKeepsExactlyInRange ==
    run.filterRan =>
        LET start == widgets.y1
            end == widgets.y2
            Y(r) == ToNumeric(r["year"])
            Keep(r) == Y(r).t = "num" /\ start <= Y(r).n /\ Y(r).n <= end
            kept == SelectSeq(run.fin.rows, Keep)
        IN /\ Len(run.fout.rows) = Len(kept)
           /\ \A i \in 1..Len(kept) :
                  run.fout.rows[i] = [kept[i] EXCEPT !["year"] = Y(kept[i])]
           /\ \A i \in 1..Len(run.fout.rows) :
                  /\ run.fout.rows[i]["year"].t = "num"
                  /\ start <= run.fout.rows[i]["year"].n
                  /\ run.fout.rows[i]["year"].n <= end
           /\ (start > end => run.fout.rows = <<>>)
           /\ run.fout.cols = run.fin.cols

\* the input holds a record with a non-numeric year text and a record at the
\* end bound; the second one only is returned
C4_Witness ==
    /\ run.filterRan
    /\ \E i \in 1..Len(run.fin.rows) :
          run.fin.rows[i]["year"].t = "str" /\ ToNumeric(run.fin.rows[i]["year"]) = NaN
    /\ Len(run.fout.rows) = 1
    /\ Len(run.fin.rows) = 2

\* C5 (as claimed): after a fetch that failed 3 times, the record set that
\* is filtered and offered for export is empty.
C5_NothingToFilterAfterFailedFetch ==
    FetchRunOver /\ fetch.queried /\ ~fetch.broke /\ run.filterRan
        => run.fin.rows = <<>>

\* C5 (amended): the return of a fetch that failed 3 times yields the empty
\* record set and leaves the stored publications as they were; the filter and
\* the export controls are reached only if an earlier search stored a record
\* set, and the filter then runs on that earlier set.
C5_FailedFetchKeepsStoredSet ==
    [][pc = "ret" /\ ~fetch.broke =>
         /\ run'.ret = EmptyFrame
         /\ session'.hasPubs = session.hasPubs
         /\ (~session.hasPubs => ~run'.filterRan /\ "exports" \notin run'.shown)
         /\ (session.hasPubs =>
                \/ run'.filterRan /\ run'.fin = session.publications
                \/ run'.fault # "none")]_vars

C5_Witness ==
    /\ FetchRunOver /\ fetch.queried /\ ~fetch.broke
    /\ run.filterRan /\ run.fin.rows # <<>>

\* C6 (as claimed): every invocation of the fetch issues a new search query.
C6_EveryInvocationQueries ==
    run.searched = "scholar" => fetch.queried

\* C6 (amended): in OOPS.py every invocation, a repeat of a name included,
\* issues a new search query and runs its own retry loop; in Prototype.py
\* the first invocation for a name does, and a repeat returns the stored
\* result without a query or an attempt.
C6_QueriesUnlessStored ==
    run.searched = "scholar" =>
        /\ fetch.queried <=> (impl = "OOPS" \/ ~fetch.repeat)
        /\ (~fetch.queried =>
                /\ fetch.attempts = 0
                /\ run.ret = cache[fetch.name].ret)
        /\ (fetch.queried /\ pc = "idle" => fetch.attempts >= 1)

C6_Witness ==
    /\ impl = "OOPS" /\ FetchRunOver
    /\ fetch.repeat /\ fetch.queried /\ fetch.attempts >= 1

\* C7: filtering the result of the Year Filter again with the same bounds
\* gives that result.
C7_FilterIdempotent ==
    run.filterRan =>
        LET again == FilterByYear(run.fout, widgets.y1, widgets.y2)
        IN again.fault = "none" /\ again.val.out = run.fout

\* a first filtering that coerced year texts and kept some record
C7_Witness ==
    /\ run.filterRan
    /\ run.fout.rows # <<>>
    /\ \E i \in 1..Len(run.fin.rows) : run.fin.rows[i]["year"].t = "str"
    /\ widgets.y1 = SliderMin /\ widgets.y2 = SliderMax

\* C8: with a file in the uploader whose name ends in neither .bib nor
\* .xlsx, the run shows the unsupported-format error and stops there: no
\* search, no filter, no export, no control that would start one, no fault.
C8_UnsupportedFileHalts ==
    pc = "idle" /\ file.present
      /\ ~EndsWith(file.fn, BibExt) /\ ~EndsWith(file.fn, XlsxExt)
        => /\ "Unsupported file format" \in run.msgs
           /\ run.fault = "none"
           /\ run.searched = "none"
           /\ ~run.filterRan
           /\ run.saved = "none"
           /\ run.shown = {}

\* the unsupported file arrives in a session that has publications stored
C8_Witness ==
    /\ pc = "idle" /\ file = TextFile /\ session.hasPubs
    /\ "Unsupported file format" \in run.msgs

\* C9: no run ends in an unhandled exception.
C9_NoUncaughtFault ==
    run.fault = "none"

\* C10: the profile whose publications a successful fetch returns is the
\* first profile the author search yielded.
C10_SuccessIsFirstProfile ==
    fetch.broke => fetch.author = fetch.first

====
